---- MODULE Spec2Model ----
(***************************************************************************)
(* A model of the ascend.ai client (client/src): the UserInputPage form,   *)
(* the App screen selection, the VisualPage roadmap (fetchRecommendations, *)
(* transformRecommendations, the profile toggles), and of the engine's DAG *)
(* builder as the specification describes it.                              *)
(***************************************************************************)
EXTENDS Integers, Sequences, FiniteSets, TLC

\* ------------------------------------------------------------------ bounds

\* Largest number of recommendations in one engine response.
MaxRecs == 3
\* Largest number of prerequisite entries in one engine response.
MaxPrereqs == 2

\* ------------------------------------------------------- engine responses

\* The horizon buckets of a response, in the order fetchRecommendations
\* concatenates them into allRecs.
Buckets == <<"immediate", "short_term", "medium_term", "long_term", "extended_term">>

\* The k-th recommendation of a response (counted along allRecs) has the
\* action_id ActionId(k) and the name NameOf(k): ids and names are distinct
\* strings, and transformRecommendations only compares them for equality.
ActionId(k) == "action_" \o ToString(k)
NameOf(k) == "Name " \o ToString(k)

\* A prerequisite name that no recommendation of the response has.
UnknownName == "Name of an action that was not recommended"

\* JS null, as the result of the prerequisite lookup.
NullId == "null"

RECURSIVE SubsetsUpTo(_, _)
SubsetsUpTo(S, n) ==
    IF n = 0 THEN {{}}
    ELSE LET prev == SubsetsUpTo(S, n - 1)
         IN  prev \cup {T \cup {x} : T \in prev, x \in S}

\* The names a rec of a k-rec response can declare as prerequisites.
PrereqNames(k) == {NameOf(j) : j \in 1..k} \cup {UnknownName}

RECURSIVE SetToSeq(_)
SetToSeq(S) ==
    IF S = {} THEN <<>>
    ELSE LET x == CHOOSE y \in S : TRUE IN <<x>> \o SetToSeq(S \ {x})

\* The rec at position pos of allRecs, given the prerequisite entries pre (a
\* set of <<position, name>> pairs).
RecAt(pos, pre) ==
    [action_id |-> ActionId(pos),
     name |-> NameOf(pos),
     prerequisites |-> SetToSeq({p[2] : p \in {q \in pre : q[1] = pos}})]

\* The response with k recs whose rec at position pos lies in bucket
\* Buckets[place[pos]] (place is monotone: allRecs lists the buckets in order).
OutputOf(k, place, pre) ==
    [b \in {Buckets[i] : i \in DOMAIN Buckets} |->
        LET idx == CHOOSE i \in DOMAIN Buckets : Buckets[i] = b
            RECURSIVE Build(_)
            Build(pos) ==
                IF pos > k THEN <<>>
                ELSE (IF place[pos] = idx THEN <<RecAt(pos, pre)>> ELSE <<>>)
                     \o Build(pos + 1)
        IN  Build(1)]

Placements(k) ==
    {f \in [1..k -> DOMAIN Buckets] : \A i, j \in 1..k : i < j => f[i] <= f[j]}

\* The prerequisite entries a k-rec response can carry: at most MaxPrereqs
\* <<position, name>> pairs.
PrereqEntries(k) == SubsetsUpTo((1..k) \X PrereqNames(k), MaxPrereqs)

EmptyOutput == [b \in {Buckets[i] : i \in DOMAIN Buckets} |-> <<>>]

\* ------------------------------------------------ transformRecommendations

\* allRecs.find(r => r.name === prereqName): the first match, or 0.
FindByName(allRecs, prereqName) ==
    IF \E i \in DOMAIN allRecs : allRecs[i].name = prereqName
    THEN CHOOSE i \in DOMAIN allRecs :
            /\ allRecs[i].name = prereqName
            /\ \A j \in 1..(i - 1) : allRecs[j].name # prereqName
    ELSE 0

\* [...new Set(s)]: the first occurrence of every element, in order.
RECURSIVE Dedupe(_)
Dedupe(s) ==
    IF s = <<>> THEN <<>>
    ELSE LET front == Dedupe(SubSeq(s, 1, Len(s) - 1))
             last == s[Len(s)]
         IN  IF \E i \in DOMAIN front : front[i] = last
             THEN front
             ELSE Append(front, last)

\* index > 0 ? [recs[index - 1].action_id] : []   (positions count from 1 here)
sequentialDepsOffByOne(recs, index) ==
    IF index > 2 THEN <<recs[index - 1].action_id>> ELSE <<>>

sequentialDeps(recs, index) ==
    IF index > 1 THEN <<recs[index - 1].action_id>> ELSE <<>>

\* (rec.prerequisites || []).map(name => find ... ? id : null).filter(Boolean)
engineDeps(rec, allRecs) ==
    LET mapped == [i \in DOMAIN rec.prerequisites |->
                      LET at == FindByName(allRecs, rec.prerequisites[i])
                      IN  IF at # 0 THEN allRecs[at].action_id ELSE NullId]
    IN  SelectSeq(mapped, LAMBDA id : id # NullId)

stageIds(recs) == {recs[i].action_id : i \in DOMAIN recs}

relevantEngineDepsUnfiltered(recs, rec, allRecs) ==
    engineDeps(rec, allRecs)

\* engineDeps.filter(id => stageIds.has(id))
relevantEngineDeps(recs, rec, allRecs) ==
    SelectSeq(engineDeps(rec, allRecs), LAMBDA id : id \in stageIds(recs))

allDeps(recs, index, allRecs) ==
    Dedupe(sequentialDeps(recs, index) \o relevantEngineDeps(recs, recs[index], allRecs))

\* The node's description and resources are display text that no dependency
\* is computed from; they are left out of the node.
transformRecommendations(recs, allRecs) ==
    [index \in DOMAIN recs |->
        [id |-> recs[index].action_id,
         name |-> recs[index].name,
         dependencies |-> allDeps(recs, index, allRecs)]]

allRecsOf(engineOutput_) ==
    engineOutput_.immediate \o engineOutput_.short_term \o engineOutput_.medium_term
        \o engineOutput_.long_term \o engineOutput_.extended_term

transformedRecommendationsShifted(engineOutput_) ==
    LET all == allRecsOf(engineOutput_)
    IN  [present |-> TRUE,
         shortTerm |-> transformRecommendations(engineOutput_.immediate, all),
         mediumTerm |-> transformRecommendations(engineOutput_.short_term, all),
         longTerm |-> transformRecommendations(engineOutput_.medium_term, all)]

transformedRecommendations(engineOutput_) ==
    LET all == allRecsOf(engineOutput_)
    IN  [present |-> TRUE,
         shortTerm |-> transformRecommendations(engineOutput_.short_term, all),
         mediumTerm |-> transformRecommendations(engineOutput_.medium_term, all),
         longTerm |-> transformRecommendations(engineOutput_.long_term, all)]

\* useState(null) of recommendations.
NoRecommendations ==
    [present |-> FALSE, shortTerm |-> <<>>, mediumTerm |-> <<>>, longTerm |-> <<>>]

\* The stages VisualPage renders, with the response bucket each shows.
stages == <<"shortTerm", "mediumTerm", "longTerm">>
StageBucket(stage) ==
    CASE stage = "shortTerm" -> "short_term"
      [] stage = "mediumTerm" -> "medium_term"
      [] stage = "longTerm" -> "long_term"


\* ------------------------------------------------------------------ state

VARIABLES
    \* UserInputPage (useState, UserInputPage.js:5-7)
    currentSituation, futureGoals, riskSliderValue,
    \* ProfileSetup (useState) and its ScrollableCards (useState)
    setupProfileData, selectedIndex,
    \* history: the last invocation of ProfileSetup's onComplete
    onCompleteCall,
    \* App (useState, App.js:20-29)
    user, appLoading, profileComplete, userInputComplete, queryData,
    showAccountPage, showButtons, canClick,
    \* Firebase: auth.currentUser and the users collection
    authUser, userDocs,
    \* App: asynchronous continuations that have not run yet
    authCallbacks, logoutPending, savePending,
    \* history: the last call of checkProfileCompleted that returned
    lastCheck,
    \* VisualPage (useState, VisualPage.js:406-410)
    profile, recommendations, loading, error, isRefreshing,
    \* VisualPage: the position of initialLoad, the fetchRecommendations calls
    \* awaiting their response, and the last response body parsed
    pageStage, inflight, engineOutput,
    \* history: the request whose response is displayed, and the number of
    \* fetchRecommendations calls made so far
    shownFor, fetches,
    \* engine, DAG builder: the candidates' declared prerequisites and total
    \* scores, the edges of the graph, the builder's position, its result
    declared, score, edges, dagPc, topoOrder,
    \* engine, grouper: the candidates' horizon affinities and the cross-bucket
    \* sequential path
    horizon, sequentialPath

inputVars == <<currentSituation, futureGoals, riskSliderValue>>
setupState == <<setupProfileData, selectedIndex>>
setupVars == <<setupState, onCompleteCall>>
appVars == <<user, appLoading, profileComplete, userInputComplete, queryData,
             showAccountPage, showButtons, canClick>>
firebaseVars == <<authUser, userDocs>>
asyncVars == <<authCallbacks, logoutPending, savePending, lastCheck>>
pageVars == <<profile, recommendations, loading, error, isRefreshing,
              pageStage, inflight, engineOutput, shownFor, fetches>>
groupVars == <<horizon, sequentialPath>>
dagVars == <<declared, score, edges, dagPc, topoOrder, groupVars>>
vars == <<inputVars, setupVars, appVars, firebaseVars, asyncVars, pageVars, dagVars>>

\* ------------------------------------------------------------ UserInputPage

\* Largest length of a text typed into a textarea.
MaxText == 2

\* A text is a sequence of characters; " " stands for white space.
Chars == {" ", "a"}
Texts == UNION {[1..n -> Chars] : n \in 0..MaxText}

RECURSIVE TrimStart(_)
TrimStart(t) == IF t # <<>> /\ Head(t) = " " THEN TrimStart(Tail(t)) ELSE t

RECURSIVE TrimEnd(_)
TrimEnd(t) ==
    IF t # <<>> /\ t[Len(t)] = " " THEN TrimEnd(SubSeq(t, 1, Len(t) - 1)) ELSE t

TrimStartOnly(t) == TrimStart(t)

\* String.prototype.trim
Trim(t) == TrimEnd(TrimStart(t))

SliderMin == 0
SliderMax == 100
SliderInitial == 50

getRiskLevelInclusive(value) ==
    IF value <= 33 THEN "low"
    ELSE IF value <= 67 THEN "medium"
    ELSE "high"

getRiskLevel(value) ==
    IF value < 33 THEN "low"
    ELSE IF value < 67 THEN "medium"
    ELSE "high"

riskLevel == getRiskLevel(riskSliderValue)

\* currentSituation.trim() && futureGoals.trim(), as a truth value
isFormValid == Trim(currentSituation) # <<>> /\ Trim(futureGoals) # <<>>

\* useState(null) of queryData; a query whose riskLevel is "" has none.
NoQuery == [present |-> FALSE, currentSituation |-> <<>>, futureGoals |-> <<>>,
            riskLevel |-> ""]

NoUser == "no user"

\* ------------------------------------------------------------ profiles

ProfileFields == {"age", "location", "propertyValue", "vehicleValue",
                  "investments", "debt", "salary"}

\* A profile object: "" is a field that is missing or empty (both falsy), and
\* has_dependents FALSE also stands for a missing flag. null and {} read the
\* same through ?. and ||, and have the same representation.
EmptyProfile ==
    [age |-> "", location |-> "", propertyValue |-> "", vehicleValue |-> "",
     investments |-> "", debt |-> "", salary |-> "", has_dependents |-> FALSE]

\* ------------------------------------------------------------ App rendering

ScreenSkipsProfileCheck ==
    IF appLoading THEN "loading"
    ELSE IF user # NoUser
         THEN IF showAccountPage THEN "account"
              ELSE IF ~userInputComplete THEN "userInput"
              ELSE "dashboard"
         ELSE "landing"

\* The branch of App's render that is taken (App.js:152-284).
Screen ==
    IF appLoading THEN "loading"
    ELSE IF user # NoUser
         THEN IF showAccountPage THEN "account"
              ELSE IF ~profileComplete THEN "profileSetup"
              ELSE IF ~userInputComplete THEN "userInput"
              ELSE "dashboard"
         ELSE "landing"

InputInit ==
    /\ currentSituation = <<>>
    /\ futureGoals = <<>>
    /\ riskSliderValue = SliderInitial

\* UserInputPage keeps its state while App renders it; a render of another
\* screen unmounts it, and the next mount starts from the initial values.
KeepInput ==
    IF Screen' = "userInput"
    THEN UNCHANGED inputVars
    ELSE /\ currentSituation' = <<>>
         /\ futureGoals' = <<>>
         /\ riskSliderValue' = SliderInitial

\* ProfileSetup as mounted: profileData {} and the first card selected; no
\* onComplete has been invoked.
NoCall == [called |-> FALSE, profileData |-> EmptyProfile, selectedIndex |-> 0]

SetupInit ==
    /\ setupProfileData = EmptyProfile
    /\ selectedIndex = 0
    /\ onCompleteCall = NoCall

\* ProfileSetup keeps its state while App renders it; a render of another
\* screen unmounts it, and the next mount starts from the initial values.
KeepSetup ==
    /\ IF Screen = "profileSetup" /\ Screen' = "profileSetup"
       THEN UNCHANGED setupState
       ELSE /\ setupProfileData' = EmptyProfile
            /\ selectedIndex' = 0
    /\ UNCHANGED onCompleteCall

setCurrentSituation(t) ==
    /\ Screen = "userInput"
    /\ currentSituation' = t
    /\ UNCHANGED <<futureGoals, riskSliderValue>>
    /\ UNCHANGED <<appVars, firebaseVars, asyncVars, pageVars>>
    /\ UNCHANGED <<dagVars, setupVars>>

setFutureGoals(t) ==
    /\ Screen = "userInput"
    /\ futureGoals' = t
    /\ UNCHANGED <<currentSituation, riskSliderValue>>
    /\ UNCHANGED <<appVars, firebaseVars, asyncVars, pageVars>>
    /\ UNCHANGED <<dagVars, setupVars>>

setRiskSliderValue(v) ==
    /\ Screen = "userInput"
    /\ riskSliderValue' = v
    /\ UNCHANGED <<currentSituation, futureGoals>>
    /\ UNCHANGED <<appVars, firebaseVars, asyncVars, pageVars>>
    /\ UNCHANGED <<dagVars, setupVars>>

\* UserInputPage.handleSubmit calling App.handleUserInputComplete. The page is
\* unmounted by the render that follows, which discards its state.
handleSubmit ==
    /\ Screen = "userInput"
    /\ isFormValid
    /\ queryData' = [present |-> TRUE,
                     currentSituation |-> Trim(currentSituation),
                     futureGoals |-> Trim(futureGoals),
                     riskLevel |-> riskLevel]
    /\ userInputComplete' = TRUE
    /\ UNCHANGED <<user, appLoading, profileComplete, showAccountPage, showButtons, canClick>>
    /\ UNCHANGED <<firebaseVars, asyncVars, pageVars>>
    /\ UNCHANGED dagVars
    /\ KeepInput
    /\ KeepSetup

\* ------------------------------------------------------ Firestore documents

Users == {"u1", "u2"}

\* A value ProfileSetup stores for a field (ProfileSetup.js profileQuestions);
\* the dash of the option texts is written "-".
StoredValue(field) ==
    CASE field = "age" -> "25-29"
      [] field = "location" -> "Vancouver"
      [] field = "propertyValue" -> "No property"
      [] field = "vehicleValue" -> "No vehicle"
      [] field = "investments" -> "<$5k"
      [] field = "debt" -> "$5k-$15k"
      [] field = "salary" -> "$2k-$3k"

\* The profile in which exactly the fields of S are stored.
ProfileWith(S, dependents) ==
    [age |-> IF "age" \in S THEN StoredValue("age") ELSE "",
     location |-> IF "location" \in S THEN StoredValue("location") ELSE "",
     propertyValue |-> IF "propertyValue" \in S THEN StoredValue("propertyValue") ELSE "",
     vehicleValue |-> IF "vehicleValue" \in S THEN StoredValue("vehicleValue") ELSE "",
     investments |-> IF "investments" \in S THEN StoredValue("investments") ELSE "",
     debt |-> IF "debt" \in S THEN StoredValue("debt") ELSE "",
     salary |-> IF "salary" \in S THEN StoredValue("salary") ELSE "",
     has_dependents |-> dependents]

\* users/{uid}: no document, a document without a profile (as signInWithGoogle
\* creates it), or a document with a profile.
NoDoc == [exists |-> FALSE, hasProfile |-> FALSE, profile |-> EmptyProfile,
          profileCompleted |-> FALSE]
SignedInDoc == [exists |-> TRUE, hasProfile |-> FALSE, profile |-> EmptyProfile,
                profileCompleted |-> FALSE]
ProfileDoc(p, completed) ==
    [exists |-> TRUE, hasProfile |-> TRUE, profile |-> p, profileCompleted |-> completed]

AllDocs ==
    {NoDoc, SignedInDoc}
        \cup {ProfileDoc(ProfileWith(S, d), TRUE) : S \in SUBSET ProfileFields, d \in BOOLEAN}

\* getUserProfile: docSnap.data(), or null; then userProfileData?.profile || {}
profileDataOf(doc) ==
    IF doc.exists /\ doc.hasProfile THEN doc.profile ELSE EmptyProfile

\* ------------------------------------------------------ engine: DAG builder

\* Number of candidate actions of a request, and largest number of declared
\* prerequisite entries among them.
NumNodes == 3
MaxDeclared == 2

\* The candidates, numbered in catalog declaration order.
Nodes == 1..NumNodes

\* A declared prerequisite that is not in the candidate set.
AbsentAction == 0

\* Total scores of the candidates.
Scores == {40, 70}

NoOrder == <<>>

\* The builder is not running (the client specifications).
DagIdle ==
    /\ declared = [n \in {} |-> {}]
    /\ score = [n \in {} |-> 0]
    /\ edges = {}
    /\ dagPc = "idle"
    /\ topoOrder = NoOrder
    /\ horizon = [n \in {} |-> ""]
    /\ sequentialPath = NoOrder

\* The edges prerequisite -> action of the declared prerequisites that are in
\* the candidate set; the others are dropped.
BuildEdges(declared_) ==
    UNION {{<<p, n>> : p \in declared_[n] \cap Nodes} : n \in Nodes}

RECURSIVE DistinctSeqs(_, _)
DistinctSeqs(S, n) ==
    IF n = 0 THEN {<<>>}
    ELSE LET shorter == DistinctSeqs(S, n - 1)
         IN  shorter \cup {Append(q, x) : q \in {r \in shorter : Len(r) = n - 1}, x \in S}

\* The edges of the closed walk along the sequence c of nodes.
CycleEdges(c) ==
    {<<c[i], c[IF i = Len(c) THEN 1 ELSE i + 1]>> : i \in DOMAIN c}

\* The sequences of distinct candidates: the node sequences of simple cycles.
SimplePaths ==
    {c \in DistinctSeqs(Nodes, NumNodes) :
        c # <<>> /\ Cardinality({c[i] : i \in DOMAIN c}) = Len(c)}

CyclesLongerThanOne(E) ==
    {c \in SimplePaths : Len(c) > 1 /\ CycleEdges(c) \subseteq E}

\* The simple cycles of the graph, a self-loop included. The depth-first
\* traversal reports one of them; which one depends on its visiting order.
Cycles(E) ==
    {c \in SimplePaths : CycleEdges(c) \subseteq E}

HighestEdges(c, score_) ==
    {e \in CycleEdges(c) : \A f \in CycleEdges(c) : score_[e[2]] >= score_[f[2]]}

\* The edges of the cycle whose head node has the lowest total score; the
\* choice among several of them is left open by the specification.
LowestEdges(c, score_) ==
    {e \in CycleEdges(c) : \A f \in CycleEdges(c) : score_[e[2]] <= score_[f[2]]}

\* The node placed next by the topological sort: among the nodes all of whose
\* prerequisites are placed, the highest total score, then the declaration order.
Ready(E, placed) ==
    {n \in Nodes \ placed : \A e \in E : e[2] = n => e[1] \in placed}

BestByScoreOnly(ready, score_) ==
    {n \in ready : \A m \in ready : score_[n] >= score_[m]}

\* The ties among the ready nodes are broken by descending total score, then
\* by catalog declaration order.
Best(ready, score_) ==
    {n \in ready : \A m \in ready \ {n} :
                        \/ score_[n] > score_[m]
                        \/ score_[n] = score_[m] /\ n < m}

NextInOrder(E, placed, score_) ==
    LET best == Best(Ready(E, placed), score_)
    IN  IF best = {} THEN 0 ELSE CHOOSE n \in best : TRUE

RECURSIVE TopologicalSortFrom(_, _, _)
TopologicalSortFrom(E, order, score_) ==
    LET n == NextInOrder(E, {order[i] : i \in DOMAIN order}, score_)
    IN  IF n = 0 THEN order ELSE TopologicalSortFrom(E, Append(order, n), score_)

\* The order of the nodes the sort can place; all of them when it succeeds.
TopologicalSort(E, score_) == TopologicalSortFrom(E, <<>>, score_)

\* The engine takes up a request whose scored candidates declare the
\* prerequisites declared_.
process(declared_, score_) ==
    /\ dagPc = "idle"
    /\ declared' = declared_
    /\ score' = score_
    /\ dagPc' = "build"
    /\ UNCHANGED <<edges, topoOrder, groupVars>>
    /\ UNCHANGED <<inputVars, setupVars, appVars, firebaseVars, asyncVars, pageVars>>

buildEdges ==
    /\ dagPc = "build"
    /\ edges' = BuildEdges(declared)
    /\ dagPc' = "detect"
    /\ UNCHANGED <<declared, score, topoOrder, groupVars>>
    /\ UNCHANGED <<inputVars, setupVars, appVars, firebaseVars, asyncVars, pageVars>>

\* Detection finds the cycle c; its lowest-scored edge e is removed and
\* detection runs again.
breakCycle ==
    /\ dagPc = "detect"
    /\ \E c \in Cycles(edges) :
          \E e \in LowestEdges(c, score) : edges' = edges \ {e}
    /\ UNCHANGED <<declared, score, dagPc, topoOrder, groupVars>>
    /\ UNCHANGED <<inputVars, setupVars, appVars, firebaseVars, asyncVars, pageVars>>

\* Detection finds no cycle: the topological order is computed.
topologicalSort ==
    /\ dagPc = "detect"
    /\ Cycles(edges) = {}
    /\ topoOrder' = TopologicalSort(edges, score)
    /\ dagPc' = "done"
    /\ UNCHANGED <<declared, score, edges, groupVars>>
    /\ UNCHANGED <<inputVars, setupVars, appVars, firebaseVars, asyncVars, pageVars>>

\* --------------------------------------------------------- engine: grouper

\* The horizon affinities, in the precedence of the sequential path.
Horizons == <<"short", "medium", "long", "extended">>

HorizonRank(h) == CHOOSE i \in DOMAIN Horizons : Horizons[i] = h

RECURSIVE Restrict(_, _)
Restrict(order, S) ==
    IF order = <<>> THEN <<>>
    ELSE (IF Head(order) \in S THEN <<Head(order)>> ELSE <<>>) \o Restrict(Tail(order), S)

bucketOrderByScore(order, horizon_, score_, h) ==
    LET RECURSIVE SortByScore(_)
        SortByScore(S) ==
            IF S = {} THEN <<>>
            ELSE LET n == CHOOSE m \in S : \A k \in S \ {m} :
                              score_[m] > score_[k] \/ (score_[m] = score_[k] /\ m < k)
                 IN  <<n>> \o SortByScore(S \ {n})
    IN  SortByScore({n \in Nodes : horizon_[n] = h})

\* The bucket of horizon h: the topological order restricted to the candidates
\* of that horizon affinity. The diversity filter drops nothing (its bound is
\* not reached by NumNodes candidates).
bucketOrder(order, horizon_, score_, h) ==
    Restrict(order, {n \in Nodes : horizon_[n] = h})

RECURSIVE ConcatBuckets(_, _, _, _)
ConcatBuckets(order, horizon_, score_, i) ==
    IF i > Len(Horizons) THEN <<>>
    ELSE bucketOrder(order, horizon_, score_, Horizons[i])
            \o ConcatBuckets(order, horizon_, score_, i + 1)

\* The cross-bucket sequential path: the bucket orders concatenated in the
\* precedence short, medium, long, extended.
SequentialPath(order, horizon_, score_) == ConcatBuckets(order, horizon_, score_, 1)

\* The grouper partitions the ordered candidates, whose horizon affinities
\* are horizon_, and builds the sequential path.
group(horizon_) ==
    /\ dagPc = "done"
    /\ horizon' = horizon_
    /\ sequentialPath' = SequentialPath(topoOrder, horizon_, score)
    /\ dagPc' = "grouped"
    /\ UNCHANGED <<declared, score, edges, topoOrder>>
    /\ UNCHANGED <<inputVars, setupVars, appVars, firebaseVars, asyncVars, pageVars>>

\* ---------------------------------------------------------------- VisualPage

\* Largest number of fetchRecommendations calls made on one page.
MaxFetches == 3

NoError == ""
NotAuthenticated == "User not authenticated"
EngineApiError == "Engine API error"
NetworkError == "Failed to fetch"
ProfileReadError == "Error getting user profile"

\* value || fallback, for strings
OrElse(value, fallback) == IF value # "" THEN value ELSE fallback

engineProfileNoDefaults(profileData) ==
    [age_range |-> profileData.age,
     location |-> profileData.location,
     property_value |-> profileData.propertyValue,
     vehicle_value |-> profileData.vehicleValue,
     investments |-> profileData.investments,
     debt |-> profileData.debt,
     monthly_salary |-> profileData.salary,
     has_dependents |-> profileData.has_dependents,
     employment_stability |-> "0.7"]

\* VisualPage.js:435-445
engineProfile(profileData) ==
    [age_range |-> OrElse(profileData.age, "30-34"),
     location |-> OrElse(profileData.location, "Unknown"),
     property_value |-> OrElse(profileData.propertyValue, "prefer_not_to_say"),
     vehicle_value |-> OrElse(profileData.vehicleValue, "prefer_not_to_say"),
     investments |-> OrElse(profileData.investments, "prefer_not_to_say"),
     debt |-> OrElse(profileData.debt, "prefer_not_to_say"),
     monthly_salary |-> OrElse(profileData.salary, "prefer_not_to_say"),
     has_dependents |-> profileData.has_dependents,
     employment_stability |-> "0.7"]

engineQueryWrongKey(q) ==
    [risk_tolerance |-> "medium",
     current_situation |-> q.currentSituation,
     goal |-> q.futureGoals]

\* VisualPage.js:448-452
engineQuery(q) ==
    [risk_tolerance |-> OrElse(q.riskLevel, "medium"),
     current_situation |-> q.currentSituation,
     goal |-> q.futureGoals]

\* The JSON body of the POST: {...engineProfile, ...engineQuery}
RequestBody(profileData, q) ==
    [profile |-> engineProfile(profileData), query |-> engineQuery(q)]

NoRequest == [profile |-> engineProfile(EmptyProfile), query |-> engineQuery(NoQuery)]

\* The options of the four toggles (VisualPage.js:412-417).
profileOptions ==
    [age |-> <<"18-24", "25-29", "30-34", "35-44", "45-54", "55-64", "65+">>,
     salary |-> <<"<$1k", "$1k-$2k", "$2k-$3k", "$3k-$5k", "$5k-$7k", "$7k+">>,
     debt |-> <<"$0", "<$5k", "$5k-$15k", "$15k-$30k", "$30k-$75k", "$75k-$150k", "$150k+">>,
     investments |-> <<"$0", "<$5k", "$5k-$15k", "$15k-$30k", "$30k-$60k",
                       "$60k-$100k", "$100k-$250k">>]

ToggleFields == {"age", "salary", "debt", "investments"}

\* The option of each toggle that the model's user picks.
PickedOption(field) == profileOptions[field][1]

PageInit ==
    /\ profile = EmptyProfile
    /\ recommendations = NoRecommendations
    /\ loading = TRUE
    /\ error = NoError
    /\ isRefreshing = FALSE
    /\ pageStage = [at |-> "idle", uid |-> NoUser]
    /\ inflight = <<>>
    /\ engineOutput = EmptyOutput
    /\ shownFor = NoRequest
    /\ fetches = 0
    /\ DagIdle

\* The synchronous part of fetchRecommendations(profileData, isRefresh), up to
\* the await of fetch (VisualPage.js:420-464), or to the end of its catch when
\* there is no user. nextLoading is the value of loading before the call.
FetchStart(profileData, isRefresh, nextLoading) ==
    /\ fetches' = fetches + 1
    /\ IF authUser = NoUser
       THEN /\ error' = NotAuthenticated
            /\ loading' = FALSE
            /\ isRefreshing' = FALSE
            /\ inflight' = inflight
       ELSE /\ error' = error
            /\ loading' = (IF isRefresh THEN nextLoading ELSE TRUE)
            /\ isRefreshing' = (IF isRefresh THEN TRUE ELSE isRefreshing)
            /\ inflight' = Append(inflight,
                                  [body |-> RequestBody(profileData, queryData),
                                   isRefresh |-> isRefresh])

\* The effect of VisualPage.js:499-522, up to the await of getUserProfile.
initialLoad ==
    /\ Screen = "dashboard"
    /\ queryData.present
    /\ pageStage.at = "idle"
    /\ IF authUser = NoUser
       THEN /\ error' = NotAuthenticated
            /\ loading' = FALSE
            /\ pageStage' = [at |-> "done", uid |-> NoUser]
       ELSE /\ pageStage' = [at |-> "profile", uid |-> authUser]
            /\ UNCHANGED <<error, loading>>
    /\ UNCHANGED <<profile, recommendations, isRefreshing, inflight, engineOutput,
                   shownFor, fetches>>
    /\ UNCHANGED <<inputVars, appVars, firebaseVars, asyncVars>>
    /\ UNCHANGED <<dagVars, setupVars>>

\* getUserProfile resolves: setProfile, then fetchRecommendations(profileData, false).
initialLoadProfile ==
    /\ pageStage.at = "profile"
    /\ LET profileData == profileDataOf(userDocs[pageStage.uid])
       IN  /\ profile' = profileData
           /\ FetchStart(profileData, FALSE, loading)
    /\ pageStage' = [at |-> "done", uid |-> NoUser]
    /\ UNCHANGED <<recommendations, engineOutput, shownFor>>
    /\ UNCHANGED <<inputVars, appVars, firebaseVars, asyncVars>>
    /\ UNCHANGED <<dagVars, setupVars>>

\* getUserProfile rejects: the catch of initialLoad.
initialLoadFails ==
    /\ pageStage.at = "profile"
    /\ error' = ProfileReadError
    /\ loading' = FALSE
    /\ pageStage' = [at |-> "done", uid |-> NoUser]
    /\ UNCHANGED <<profile, recommendations, isRefreshing, inflight, engineOutput,
                   shownFor, fetches>>
    /\ UNCHANGED <<inputVars, appVars, firebaseVars, asyncVars>>
    /\ UNCHANGED <<dagVars, setupVars>>

\* The roadmap, with its toggles, is what VisualPage renders.
RoadmapShown ==
    /\ Screen = "dashboard"
    /\ ~loading
    /\ error = NoError
    /\ recommendations.present

\* updateProfile(field, value): the toggle's onChange.
updateProfile(field, value) ==
    /\ RoadmapShown
    /\ fetches < MaxFetches
    /\ LET newProfile == [profile EXCEPT ![field] = value]
       IN  /\ profile' = newProfile
           /\ FetchStart(newProfile, TRUE, loading)
    /\ UNCHANGED <<recommendations, pageStage, engineOutput, shownFor>>
    /\ UNCHANGED <<inputVars, appVars, firebaseVars, asyncVars>>
    /\ UNCHANGED <<dagVars, setupVars>>

RemoveAt(s, i) == SubSeq(s, 1, i - 1) \o SubSeq(s, i + 1, Len(s))

\* The response of call i is OK and parses to out (VisualPage.js:470-489).
FetchSuccess(i, out) ==
    /\ i \in DOMAIN inflight
    /\ engineOutput' = out
    /\ recommendations' = transformedRecommendations(out)
    /\ loading' = FALSE
    /\ isRefreshing' = FALSE
    /\ shownFor' = inflight[i].body
    /\ inflight' = RemoveAt(inflight, i)
    /\ UNCHANGED <<profile, error, pageStage, fetches>>
    /\ UNCHANGED <<inputVars, appVars, firebaseVars, asyncVars>>
    /\ UNCHANGED <<dagVars, setupVars>>

FetchFailsKeepsRefreshing(i, message) ==
    /\ i \in DOMAIN inflight
    /\ error' = message
    /\ loading' = FALSE
    /\ inflight' = RemoveAt(inflight, i)
    /\ UNCHANGED <<profile, recommendations, isRefreshing, pageStage, engineOutput,
                   shownFor, fetches>>
    /\ UNCHANGED <<inputVars, appVars, firebaseVars, asyncVars>>
    /\ UNCHANGED <<dagVars, setupVars>>

\* The response of call i is not OK, or fetch rejects: the catch.
FetchFails(i, message) ==
    /\ i \in DOMAIN inflight
    /\ error' = message
    /\ loading' = FALSE
    /\ isRefreshing' = FALSE
    /\ inflight' = RemoveAt(inflight, i)
    /\ UNCHANGED <<profile, recommendations, pageStage, engineOutput, shownFor, fetches>>
    /\ UNCHANGED <<inputVars, appVars, firebaseVars, asyncVars>>
    /\ UNCHANGED <<dagVars, setupVars>>


\* ---------------------------------------------------------------------- App

\* Largest number of auth-state callbacks that have not run to completion.
MaxAuthCallbacks == 2

\* A screen that shows the account menu with its Account and Log Out buttons.
\* The menu can be opened on each of them; its open/closing animation state is
\* not modelled.
MenuScreen == Screen \in {"profileSetup", "userInput", "dashboard"}

\* Firebase reports a change of auth.currentUser to the onAuthStateChanged
\* observer, in the order of the changes.
AuthEvent(u) == [currentUser |-> u, invoked |-> FALSE]

\* setTimeout(() => setCanClick(true), 1500)
canClickTimer ==
    /\ ~canClick
    /\ canClick' = TRUE
    /\ UNCHANGED <<user, appLoading, profileComplete, userInputComplete, queryData,
                   showAccountPage, showButtons>>
    /\ UNCHANGED <<inputVars, firebaseVars, asyncVars, pageVars>>
    /\ UNCHANGED <<dagVars, setupVars>>

handleScreenClick ==
    /\ Screen = "landing"
    /\ canClick /\ ~showButtons /\ user = NoUser
    /\ showButtons' = TRUE
    /\ UNCHANGED <<user, appLoading, profileComplete, userInputComplete, queryData,
                   showAccountPage, canClick>>
    /\ UNCHANGED <<inputVars, firebaseVars, asyncVars, pageVars>>
    /\ UNCHANGED <<dagVars, setupVars>>

\* No call of checkProfileCompleted has returned yet.
NoCheck == [made |-> FALSE, userId |-> NoUser, exists |-> FALSE,
            profileCompleted |-> FALSE, readOk |-> FALSE, result |-> FALSE]

MergeLoginOverwrites(doc) == SignedInDoc

\* setDoc(..., {displayName, email, photoURL, lastLogin}, {merge: true})
MergeLogin(doc) == IF doc.exists THEN doc ELSE SignedInDoc

\* handleGoogleLogin / handleGoogleSignup: signInWithGoogle as user u; the
\* write of the user document succeeds (written) or throws.
signInWithGoogle(u, written) ==
    /\ Screen = "landing"
    /\ showButtons
    /\ u # authUser
    /\ Len(authCallbacks) < MaxAuthCallbacks
    /\ authUser' = u
    /\ userDocs' = IF written THEN [userDocs EXCEPT ![u] = MergeLogin(@)] ELSE userDocs
    /\ authCallbacks' = Append(authCallbacks, AuthEvent(u))
    /\ UNCHANGED <<logoutPending, savePending, lastCheck>>
    /\ UNCHANGED <<inputVars, appVars, pageVars>>
    /\ UNCHANGED <<dagVars, setupVars>>

\* The observer is called with the oldest change not yet delivered. For a
\* signed-out state it runs to its end; for a user it stops at the await of
\* checkProfileCompleted (App.js:38-53).
authCallbackInvoke ==
    \E i \in DOMAIN authCallbacks :
        /\ ~authCallbacks[i].invoked
        /\ \A j \in 1..(i - 1) : authCallbacks[j].invoked
        /\ IF authCallbacks[i].currentUser = NoUser
           THEN /\ profileComplete' = FALSE
                /\ user' = NoUser
                /\ appLoading' = FALSE
                /\ authCallbacks' = RemoveAt(authCallbacks, i)
           ELSE /\ authCallbacks' = [authCallbacks EXCEPT ![i].invoked = TRUE]
                /\ UNCHANGED <<profileComplete, user, appLoading>>
        /\ UNCHANGED <<userInputComplete, queryData, showAccountPage, showButtons, canClick>>
        /\ UNCHANGED <<logoutPending, savePending, lastCheck>>
        /\ UNCHANGED <<firebaseVars, pageVars>>
        /\ UNCHANGED dagVars
        /\ KeepInput
        /\ KeepSetup

checkProfileCompletedTrueOnError(doc, readOk) ==
    IF readOk THEN doc.exists /\ doc.profileCompleted ELSE TRUE

\* firebase.js:140-153; readOk FALSE is the read that throws.
checkProfileCompleted(doc, readOk) ==
    IF readOk THEN doc.exists /\ doc.profileCompleted ELSE FALSE

\* checkProfileCompleted resolves and the observer runs to its end.
authCallbackResume(i, readOk) ==
    /\ i \in DOMAIN authCallbacks
    /\ authCallbacks[i].invoked
    /\ LET currentUser == authCallbacks[i].currentUser
       IN  /\ profileComplete' = checkProfileCompleted(userDocs[currentUser], readOk)
           /\ user' = currentUser
           /\ lastCheck' = [made |-> TRUE, userId |-> currentUser,
                            exists |-> userDocs[currentUser].exists,
                            profileCompleted |-> userDocs[currentUser].profileCompleted,
                            readOk |-> readOk,
                            result |-> checkProfileCompleted(userDocs[currentUser], readOk)]
    /\ appLoading' = FALSE
    /\ authCallbacks' = RemoveAt(authCallbacks, i)
    /\ UNCHANGED <<userInputComplete, queryData, showAccountPage, showButtons, canClick>>
    /\ UNCHANGED <<logoutPending, savePending>>
    /\ UNCHANGED <<firebaseVars, pageVars>>
    /\ UNCHANGED dagVars
    /\ KeepInput
    /\ KeepSetup

\* handleLogout up to the await of logOut(), with signOut taking effect.
handleLogout ==
    /\ MenuScreen
    /\ ~logoutPending
    /\ authUser # NoUser
    /\ Len(authCallbacks) < MaxAuthCallbacks
    /\ authUser' = NoUser
    /\ authCallbacks' = Append(authCallbacks, AuthEvent(NoUser))
    /\ logoutPending' = TRUE
    /\ UNCHANGED <<userDocs, savePending, lastCheck>>
    /\ UNCHANGED <<inputVars, appVars, pageVars>>
    /\ UNCHANGED <<dagVars, setupVars>>

\* handleLogout after the await (App.js:94-95).
handleLogoutResume ==
    /\ logoutPending
    /\ logoutPending' = FALSE
    /\ showButtons' = FALSE
    /\ profileComplete' = FALSE
    /\ UNCHANGED <<user, appLoading, userInputComplete, queryData, showAccountPage, canClick>>
    /\ UNCHANGED <<authCallbacks, savePending, lastCheck>>
    /\ UNCHANGED <<firebaseVars, pageVars>>
    /\ UNCHANGED dagVars
    /\ KeepInput
    /\ KeepSetup

handleOpenAccountPage ==
    /\ MenuScreen
    /\ showAccountPage' = TRUE
    /\ UNCHANGED <<user, appLoading, profileComplete, userInputComplete, queryData,
                   showButtons, canClick>>
    /\ UNCHANGED <<firebaseVars, asyncVars, pageVars>>
    /\ UNCHANGED dagVars
    /\ KeepInput
    /\ KeepSetup

handleCloseAccountPage ==
    /\ Screen = "account"
    /\ showAccountPage' = FALSE
    /\ UNCHANGED <<user, appLoading, profileComplete, userInputComplete, queryData,
                   showButtons, canClick>>
    /\ UNCHANGED <<firebaseVars, asyncVars, pageVars>>
    /\ UNCHANGED dagVars
    /\ KeepInput
    /\ KeepSetup

\* updateUserProfile(userId, {profile, profileCompleted}): updateDoc replaces
\* the two fields of an existing document and throws when there is none.
updateUserProfile(doc, updates) ==
    IF doc.exists THEN ProfileDoc(updates.profile, updates.profileCompleted) ELSE doc

\* AccountPage.handleSave: the Save button is enabled once editedData differs
\* from the profile the page loaded; the page is rendered for App's user.
handleSave(editedData) ==
    /\ Screen = "account"
    /\ editedData # profileDataOf(userDocs[user])
    /\ userDocs' = [userDocs EXCEPT ![user] =
                        updateUserProfile(@, [profile |-> editedData, profileCompleted |-> TRUE])]
    /\ UNCHANGED authUser
    /\ UNCHANGED <<inputVars, appVars, asyncVars, pageVars>>
    /\ UNCHANGED <<dagVars, setupVars>>

\* handleProfileComplete(profileData) up to the await of saveUserProfile.
handleProfileComplete(profileData) ==
    /\ Screen = "profileSetup"
    /\ savePending = <<>>
    /\ savePending' = <<[uid |-> user, profileData |-> profileData]>>
    /\ UNCHANGED <<authCallbacks, logoutPending, lastCheck>>
    /\ UNCHANGED <<inputVars, appVars, firebaseVars, pageVars>>
    /\ UNCHANGED <<dagVars, setupState>>

\* saveUserProfile: setDoc(..., {profile, profileCompleted: true, ...}, {merge: true})
saveUserProfile(doc, profileData) ==
    ProfileDoc([profileData EXCEPT !.has_dependents = doc.profile.has_dependents], TRUE)

\* The save succeeds: the document is written and setProfileComplete(true) runs.
handleProfileCompleteSaved ==
    /\ savePending # <<>>
    /\ userDocs' = [userDocs EXCEPT ![savePending[1].uid] =
                        saveUserProfile(@, savePending[1].profileData)]
    /\ profileComplete' = TRUE
    /\ savePending' = <<>>
    /\ UNCHANGED authUser
    /\ UNCHANGED <<user, appLoading, userInputComplete, queryData, showAccountPage,
                   showButtons, canClick>>
    /\ UNCHANGED <<authCallbacks, logoutPending, lastCheck>>
    /\ UNCHANGED pageVars
    /\ UNCHANGED dagVars
    /\ KeepInput
    /\ KeepSetup

handleProfileCompleteFailedSetsFlag ==
    /\ savePending # <<>>
    /\ savePending' = <<>>
    /\ profileComplete' = TRUE
    /\ UNCHANGED <<user, appLoading, userInputComplete, queryData, showAccountPage,
                   showButtons, canClick>>
    /\ UNCHANGED <<authCallbacks, logoutPending, lastCheck>>
    /\ UNCHANGED <<firebaseVars, pageVars>>
    /\ UNCHANGED dagVars
    /\ KeepInput
    /\ KeepSetup

\* The save throws: the catch shows an alert.
handleProfileCompleteFailed ==
    /\ savePending # <<>>
    /\ savePending' = <<>>
    /\ UNCHANGED <<authCallbacks, logoutPending, lastCheck>>
    /\ UNCHANGED <<inputVars, appVars, firebaseVars, pageVars>>
    /\ UNCHANGED <<dagVars, setupVars>>

\* ------------------------------------------------------------ ProfileSetup

\* The ids of profileQuestions, in the order of the cards.
profileQuestions ==
    <<"age", "location", "propertyValue", "vehicleValue", "investments", "debt", "salary">>

\* The city names the suggestion list can hold; a suggestion whose name,
\* state and country are all empty has the display name "".
CityNames == {"", "Vancouver"}
NoCity == "no city"

\* The values an input of a card can report: an option of a dropdown, or the
\* content of the text field of the location card (empty, blank or a name).
InputValues(questionId) ==
    IF questionId = "location" THEN {"", " ", StoredValue(questionId)}
    ELSE {StoredValue(questionId)}

allFilledButText(profileData_) ==
    \A i \in DOMAIN profileQuestions :
        profileQuestions[i] # "location" => profileData_[profileQuestions[i]] # ""

\* profileQuestions.every(q => profileData[q.id])
allFilled(profileData_) ==
    \A i \in DOMAIN profileQuestions : profileData_[profileQuestions[i]] # ""

isLastCard(index) == index = Len(profileQuestions) - 1

\* handleValueChange(questionId, value), from the input of any card.
handleValueChange(questionId, value) ==
    /\ Screen = "profileSetup"
    /\ setupProfileData' = [setupProfileData EXCEPT ![questionId] = value]
    /\ UNCHANGED <<selectedIndex, onCompleteCall>>
    /\ UNCHANGED <<inputVars, appVars, firebaseVars, asyncVars, pageVars>>
    /\ UNCHANGED dagVars

\* handleCityInputChange: typing a city clears the stored location.
handleCityInputChange ==
    /\ Screen = "profileSetup"
    /\ setupProfileData' = [setupProfileData EXCEPT !.location = ""]
    /\ UNCHANGED <<selectedIndex, onCompleteCall>>
    /\ UNCHANGED <<inputVars, appVars, firebaseVars, asyncVars, pageVars>>
    /\ UNCHANGED dagVars

\* handleCitySelect(city): a suggestion is clicked, or selected automatically
\* when the location card is left.
handleCitySelect(city) ==
    /\ Screen = "profileSetup"
    /\ setupProfileData' = [setupProfileData EXCEPT !.location = city]
    /\ UNCHANGED <<selectedIndex, onCompleteCall>>
    /\ UNCHANGED <<inputVars, appVars, firebaseVars, asyncVars, pageVars>>
    /\ UNCHANGED dagVars

\* ScrollableCards.handleWheel: one card up or down, within the cards.
handleWheel(direction) ==
    /\ Screen = "profileSetup"
    /\ LET newIndex == selectedIndex + direction
       IN  IF newIndex >= 0 /\ newIndex < Len(profileQuestions)
           THEN selectedIndex' = newIndex
           ELSE UNCHANGED selectedIndex
    /\ UNCHANGED <<setupProfileData, onCompleteCall>>
    /\ UNCHANGED <<inputVars, appVars, firebaseVars, asyncVars, pageVars>>
    /\ UNCHANGED dagVars

\* handleKeyDown with the Enter key in the input of card index: nothing on
\* the last card; otherwise goToNextCard, after the automatic selection of the
\* first suggested city (autoCity) on the location card.
handleKeyDown(index, autoCity) ==
    /\ Screen = "profileSetup"
    /\ IF isLastCard(index)
       THEN UNCHANGED setupState
       ELSE /\ IF profileQuestions[index + 1] = "location" /\ autoCity # NoCity
               THEN setupProfileData' = [setupProfileData EXCEPT !.location = autoCity]
               ELSE UNCHANGED setupProfileData
            /\ IF selectedIndex < Len(profileQuestions) - 1
               THEN selectedIndex' = selectedIndex + 1
               ELSE UNCHANGED selectedIndex
    /\ UNCHANGED onCompleteCall
    /\ UNCHANGED <<inputVars, appVars, firebaseVars, asyncVars, pageVars>>
    /\ UNCHANGED dagVars

\* A click on the "Complete Profile" button, which only the last card has:
\* handleSubmit when the card is selected and all fields are filled (it checks
\* allFilled again and calls onComplete, App's handleProfileComplete),
\* otherwise at most an alert.
submitButtonClick ==
    /\ Screen = "profileSetup"
    /\ IF isLastCard(selectedIndex) /\ allFilled(setupProfileData)
       THEN IF allFilled(setupProfileData)
            THEN /\ handleProfileComplete(setupProfileData)
                 /\ onCompleteCall' = [called |-> TRUE,
                                       profileData |-> setupProfileData,
                                       selectedIndex |-> selectedIndex]
            ELSE UNCHANGED vars
       ELSE UNCHANGED vars

\* ------------------------------------------------------ specifications

\* A query as handleSubmit builds it.
SampleQuery == [present |-> TRUE, currentSituation |-> <<"a">>,
                futureGoals |-> <<"a">>, riskLevel |-> "medium"]

FullProfile == ProfileWith(ProfileFields, FALSE)

\* No asynchronous continuation of App is pending.
AsyncIdle ==
    /\ authCallbacks = <<>>
    /\ logoutPending = FALSE
    /\ savePending = <<>>
    /\ lastCheck = NoCheck

\* App shows the screen of the signed-in user u after the auth callback ran.
AppSignedIn(u, completed, inputDone, q) ==
    /\ user = u
    /\ authUser = u
    /\ appLoading = FALSE
    /\ profileComplete = completed
    /\ userInputComplete = inputDone
    /\ queryData = q
    /\ showAccountPage = FALSE
    /\ showButtons = FALSE
    /\ canClick = TRUE

\* The roadmap page just mounted for a user who has submitted a query; the
\* engine answers its request with any response of at most MaxRecs
\* recommendations and MaxPrereqs prerequisite entries.
InitTransform ==
    /\ InputInit
    /\ SetupInit
    /\ AppSignedIn("u1", TRUE, TRUE, SampleQuery)
    /\ userDocs = [u \in Users |-> IF u = "u1" THEN ProfileDoc(FullProfile, TRUE) ELSE NoDoc]
    /\ AsyncIdle
    /\ PageInit

NextTransform ==
    \/ initialLoad
    \/ initialLoadProfile
    \/ \E i \in DOMAIN inflight, k \in 0..MaxRecs :
          \E place \in Placements(k), pre \in PrereqEntries(k) :
             FetchSuccess(i, OutputOf(k, place, pre))

SpecTransform == InitTransform /\ [][NextTransform]_vars

\* ------------------------------------------------------ claims: the roadmap

StageNodes(stage) ==
    CASE stage = "shortTerm" -> recommendations.shortTerm
      [] stage = "mediumTerm" -> recommendations.mediumTerm
      [] stage = "longTerm" -> recommendations.longTerm

StageNames == {stages[i] : i \in DOMAIN stages}

SeqRange(s) == {s[i] : i \in DOMAIN s}

\* C1: in every displayed stage, every dependency of the node at position j is
\* the id of a node at an earlier position of the same stage (so the stage's
\* dependency graph has no cycle and no self-dependency).
C1_EdgesPointForward ==
    recommendations.present =>
        \A stage \in StageNames :
            LET nodes == StageNodes(stage)
            IN  \A j \in DOMAIN nodes :
                    \A d \in SeqRange(nodes[j].dependencies) :
                        \E i \in 1..(j - 1) : nodes[i].id = d

\* C2: in every stage the node at position i > 1 depends on the node at
\* position i - 1 of that stage, the first node has no dependency but the ids
\* of recommendations it names as prerequisites, and every dependency of a node
\* that is not such a named prerequisite is its predecessor in the same stage.
C2_SequentialDeps ==
    recommendations.present =>
        \A stage \in StageNames :
            LET nodes == StageNodes(stage)
                recs == engineOutput[StageBucket(stage)]
                all == allRecsOf(engineOutput)
                named(j) == {all[k].action_id :
                                k \in {k \in DOMAIN all :
                                          all[k].name \in SeqRange(recs[j].prerequisites)}}
            IN  /\ Len(nodes) = Len(recs)
                /\ \A j \in DOMAIN nodes :
                    /\ j > 1 => nodes[j - 1].id \in SeqRange(nodes[j].dependencies)
                    /\ \A d \in SeqRange(nodes[j].dependencies) :
                          \/ d \in named(j)
                          \/ j > 1 /\ d = nodes[j - 1].id

\* A stage of three nodes is displayed, whose third node depends on the second
\* and whose second on the first.
C2_Witness ==
    /\ recommendations.present
    /\ \E stage \in StageNames :
          LET nodes == StageNodes(stage)
          IN  /\ Len(nodes) = 3
              /\ nodes[3].dependencies = <<nodes[2].id>>
              /\ nodes[2].dependencies = <<nodes[1].id>>
              /\ nodes[1].dependencies = <<>>

\* C8: a prerequisite name that no recommendation of the response has adds no
\* dependency: a node is emitted for every recommendation of the stage, and
\* every dependency of a node is the id of a recommendation of the same stage.
C8_UnknownPrerequisiteDropped ==
    recommendations.present =>
        \A stage \in StageNames :
            LET nodes == StageNodes(stage)
                recs == engineOutput[StageBucket(stage)]
            IN  /\ Len(nodes) = Len(recs)
                /\ \A j \in DOMAIN nodes :
                    /\ nodes[j].id = recs[j].action_id
                    /\ SeqRange(nodes[j].dependencies) \subseteq stageIds(recs)
                    /\ NullId \notin SeqRange(nodes[j].dependencies)

\* A displayed node whose recommendation names an unknown prerequisite, and a
\* second one whose named prerequisite lies in another stage.
C8_Witness ==
    /\ recommendations.present
    /\ \E j \in DOMAIN engineOutput.short_term :
          /\ UnknownName \in SeqRange(engineOutput.short_term[j].prerequisites)
          /\ recommendations.shortTerm[j].id = engineOutput.short_term[j].action_id
    /\ \E j \in DOMAIN engineOutput.medium_term :
          \E k \in DOMAIN engineOutput.short_term :
              engineOutput.short_term[k].name
                  \in SeqRange(engineOutput.medium_term[j].prerequisites)

\* The ids a stage displays.
DisplayedIn(stage) == {StageNodes(stage)[j].id : j \in DOMAIN StageNodes(stage)}

ReturnedIds == {allRecsOf(engineOutput)[k].action_id : k \in DOMAIN allRecsOf(engineOutput)}

\* C9 as stated: every action of any of the five buckets of the response is
\* displayed in exactly one stage.
C9_EveryBucketDisplayed ==
    recommendations.present =>
        \A id \in ReturnedIds :
            Cardinality({stage \in StageNames : id \in DisplayedIn(stage)}) = 1

\* C9 as amended: each stage displays the recommendations of its own bucket
\* (short_term, medium_term, long_term), in the response's order, and the
\* recommendations of immediate and extended_term are displayed in no stage.
C9_ThreeBucketsDisplayed ==
    recommendations.present =>
        /\ \A stage \in StageNames :
              LET nodes == StageNodes(stage)
                  recs == engineOutput[StageBucket(stage)]
              IN  /\ Len(nodes) = Len(recs)
                  /\ \A j \in DOMAIN nodes :
                        /\ nodes[j].id = recs[j].action_id
                        /\ {s \in StageNames : nodes[j].id \in DisplayedIn(s)} = {stage}
        /\ \A b \in {"immediate", "extended_term"} :
              \A k \in DOMAIN engineOutput[b] :
                  \A stage \in StageNames :
                      engineOutput[b][k].action_id \notin DisplayedIn(stage)

\* A response with a recommendation in each of immediate, short_term and
\* extended_term has been displayed.
C9_Witness ==
    /\ recommendations.present
    /\ engineOutput.immediate # <<>>
    /\ engineOutput.short_term # <<>>
    /\ engineOutput.extended_term # <<>>
    /\ recommendations.shortTerm # <<>>


\* ----------------------------------------------------- specification: App

\* The texts typed under SpecApp, and the slider positions chosen there: the
\* two ends and both sides of each threshold.
SampleTexts == {<<>>, <<" ">>, <<"a">>}

SliderStops == {SliderMin, 32, 33, 66, 67, SliderMax}

\* The App as mounted: the loading screen, with Firebase about to report the
\* persisted session (or none).
InitApp ==
    /\ InputInit
    /\ SetupInit
    /\ user = NoUser
    /\ appLoading = TRUE
    /\ profileComplete = FALSE
    /\ userInputComplete = FALSE
    /\ queryData = NoQuery
    /\ showAccountPage = FALSE
    /\ showButtons = FALSE
    /\ canClick = FALSE
    /\ userDocs \in [Users -> {NoDoc, ProfileDoc(FullProfile, TRUE)}]
    /\ authUser \in {NoUser} \cup {u \in Users : userDocs[u].exists}
    /\ authCallbacks = <<AuthEvent(authUser)>>
    /\ logoutPending = FALSE
    /\ savePending = <<>>
    /\ lastCheck = NoCheck
    /\ PageInit

NextApp ==
    \/ canClickTimer
    \/ handleScreenClick
    \/ \E u \in Users, written \in BOOLEAN : signInWithGoogle(u, written)
    \/ authCallbackInvoke
    \/ \E i \in DOMAIN authCallbacks, readOk \in BOOLEAN : authCallbackResume(i, readOk)
    \/ handleLogout
    \/ handleLogoutResume
    \/ handleOpenAccountPage
    \/ handleCloseAccountPage
    \/ handleProfileComplete(FullProfile) /\ UNCHANGED onCompleteCall
    \/ handleProfileCompleteSaved
    \/ handleProfileCompleteFailed
    \/ \E t \in SampleTexts : setCurrentSituation(t)
    \/ \E t \in SampleTexts : setFutureGoals(t)
    \/ \E v \in SliderStops : setRiskSliderValue(v)
    \/ handleSubmit

SpecApp == InitApp /\ [][NextApp]_vars

RiskLevels == {"low", "medium", "high"}

\* UserInputPage as App renders it for a signed-in user with a complete profile.
InitInput ==
    /\ InputInit
    /\ SetupInit
    /\ AppSignedIn("u1", TRUE, FALSE, NoQuery)
    /\ userDocs = [u \in Users |-> IF u = "u1" THEN ProfileDoc(FullProfile, TRUE) ELSE NoDoc]
    /\ AsyncIdle
    /\ PageInit

NextInput ==
    \/ \E t \in Texts : setCurrentSituation(t)
    \/ \E t \in Texts : setFutureGoals(t)
    \/ \E v \in SliderMin..SliderMax : setRiskSliderValue(v)
    \/ handleSubmit

SpecInput == InitInput /\ [][NextInput]_vars

\* C3: for the slider value v, the risk level is low exactly when v < 33,
\* medium exactly when 33 <= v < 67 and high exactly when v >= 67, and it is
\* one of the three levels.
C3_RiskThresholds ==
    /\ riskSliderValue \in SliderMin..SliderMax
    /\ riskLevel \in RiskLevels
    /\ riskLevel = "low" <=> riskSliderValue < 33
    /\ riskLevel = "medium" <=> (33 <= riskSliderValue /\ riskSliderValue < 67)
    /\ riskLevel = "high" <=> riskSliderValue >= 67

\* The slider stands on the threshold 67 and the level shown is high.
C3_Witness == riskSliderValue = 67 /\ riskLevel = "high"

\* C22: a step that invokes onComplete (it sets App's queryData) is taken with
\* both texts non-blank, and the payload holds the two texts without their
\* leading and trailing white space and the risk level of the slider value;
\* with a text that is empty or all white space no step invokes onComplete.
C22_SubmitOnlyValidForm ==
    [][LET Blanks(n) == [i \in 1..n |-> " "]
           IsBlank(t) == t = Blanks(Len(t))
           IsTrimOf(p, t) ==
               /\ p # <<>> => (p[1] # " " /\ p[Len(p)] # " ")
               /\ \E i, j \in 0..Len(t) : t = Blanks(i) \o p \o Blanks(j)
       IN  /\ queryData' # queryData =>
                /\ ~IsBlank(currentSituation)
                /\ ~IsBlank(futureGoals)
                /\ queryData'.present
                /\ IsTrimOf(queryData'.currentSituation, currentSituation)
                /\ IsTrimOf(queryData'.futureGoals, futureGoals)
                /\ queryData'.riskLevel = getRiskLevel(riskSliderValue)
                /\ userInputComplete'
           /\ (IsBlank(currentSituation) \/ IsBlank(futureGoals))
                => UNCHANGED <<queryData, userInputComplete>>]_vars

\* A query was submitted with a high risk level; its texts have no white
\* space at their ends.
C22_Witness ==
    /\ userInputComplete
    /\ queryData.present
    /\ queryData.currentSituation = <<"a", "a">>
    /\ queryData.futureGoals = <<"a">>
    /\ queryData.riskLevel = "high"


\* ----------------------------------------------- specification: VisualPage

\* Two responses of the engine: two short-term actions, the second naming the
\* first as its prerequisite; and one medium-term action.
SampleOutputs ==
    {OutputOf(2, <<2, 2>>, {<<2, NameOf(1)>>}), OutputOf(1, <<3>>, {})}

\* App shows UserInputPage to a signed-in user with a complete profile; the
\* roadmap page is mounted with App's queryData once the dashboard is rendered.
InitPage ==
    /\ InputInit
    /\ SetupInit
    /\ AppSignedIn("u1", TRUE, FALSE, NoQuery)
    /\ userDocs \in {[u \in Users |-> IF u = "u1" THEN d ELSE NoDoc] :
                        d \in {ProfileDoc(FullProfile, TRUE),
                               ProfileDoc(ProfileWith({"age", "location"}, FALSE), TRUE)}}
    /\ AsyncIdle
    /\ PageInit

NextPage ==
    \/ \E t \in Texts : setCurrentSituation(t)
    \/ \E t \in Texts : setFutureGoals(t)
    \/ \E v \in SliderMin..SliderMax : setRiskSliderValue(v)
    \/ handleSubmit
    \/ initialLoad
    \/ initialLoadProfile
    \/ initialLoadFails
    \/ \E field \in ToggleFields : updateProfile(field, PickedOption(field))
    \/ \E i \in DOMAIN inflight, out \in SampleOutputs : FetchSuccess(i, out)
    \/ \E i \in DOMAIN inflight, message \in {EngineApiError, NetworkError} :
          FetchFails(i, message)

SpecPage == InitPage /\ [][NextPage]_vars

\* C4: every request sent to the engine, awaiting its response or displayed,
\* carries a risk_tolerance of low, medium or high: the level of the query
\* that was submitted.
C4_RiskToleranceSent ==
    /\ \A i \in DOMAIN inflight :
          /\ inflight[i].body.query.risk_tolerance \in RiskLevels
          /\ inflight[i].body.query.risk_tolerance = queryData.riskLevel
    /\ recommendations.present =>
          /\ shownFor.query.risk_tolerance \in RiskLevels
          /\ shownFor.query.risk_tolerance = queryData.riskLevel

\* After the slider was moved into the low range and the form submitted, a
\* toggle change has sent a refresh request.
C4_Witness ==
    \E i \in DOMAIN inflight :
        /\ inflight[i].isRefresh
        /\ inflight[i].body.query.risk_tolerance = "low"

\* C5: once no engine request is outstanding, the recommendations displayed
\* are those returned for the request of the profile selected last.
C5_LatestProfileDisplayed ==
    (/\ pageStage.at = "done"
     /\ inflight = <<>>
     /\ RoadmapShown)
        => shownFor = RequestBody(profile, queryData)


\* ------------------------------------- specification: stored profile shapes

\* The roadmap page mounted for a user whose document is any of AllDocs: none,
\* one without a profile, or one whose profile holds any subset of the fields.
InitDefaults ==
    /\ InputInit
    /\ SetupInit
    /\ AppSignedIn("u1", TRUE, TRUE, SampleQuery)
    /\ userDocs \in {[u \in Users |-> IF u = "u1" THEN d ELSE NoDoc] : d \in AllDocs}
    /\ AsyncIdle
    /\ PageInit

NextDefaults ==
    \/ initialLoad
    \/ initialLoadProfile
    \/ initialLoadFails
    \/ \E field \in ToggleFields : updateProfile(field, PickedOption(field))
    \/ \E i \in DOMAIN inflight, out \in SampleOutputs : FetchSuccess(i, out)
    \/ \E i \in DOMAIN inflight, message \in {EngineApiError, NetworkError} :
          FetchFails(i, message)

SpecDefaults == InitDefaults /\ [][NextDefaults]_vars

\* The value the claim gives a request field whose profile field is missing.
C7_Default(requestField) ==
    CASE requestField = "age_range" -> "30-34"
      [] requestField = "location" -> "Unknown"
      [] requestField \in {"property_value", "vehicle_value", "investments", "debt",
                           "monthly_salary"} -> "prefer_not_to_say"

C7_RequestFields == {"age_range", "location", "property_value", "vehicle_value",
                     "investments", "debt", "monthly_salary"}

C7_ProfileField(requestField) ==
    CASE requestField = "age_range" -> "age"
      [] requestField = "location" -> "location"
      [] requestField = "property_value" -> "propertyValue"
      [] requestField = "vehicle_value" -> "vehicleValue"
      [] requestField = "investments" -> "investments"
      [] requestField = "debt" -> "debt"
      [] requestField = "monthly_salary" -> "salary"

\* C7: whatever fields the stored profile lacks, every request sent has every
\* profile field populated; the request of the initial load carries the stored
\* value of each field that is stored and the default of each field that is
\* not; and the page is in the error state only after a failed read or a
\* failed engine call, a request having been sent whenever the read succeeded.
C7_MissingFieldsDefaulted ==
    /\ \A i \in DOMAIN inflight :
          LET sent == inflight[i].body.profile
              stored == profileDataOf(userDocs["u1"])
          IN  /\ \A f \in C7_RequestFields : sent[f] # ""
              /\ sent.has_dependents \in BOOLEAN
              /\ sent.employment_stability = "0.7"
              /\ ~inflight[i].isRefresh =>
                    /\ \A f \in C7_RequestFields :
                          sent[f] = IF stored[C7_ProfileField(f)] # ""
                                    THEN stored[C7_ProfileField(f)]
                                    ELSE C7_Default(f)
                    /\ sent.has_dependents = stored.has_dependents
    /\ error \in {NoError, ProfileReadError, EngineApiError, NetworkError}
    /\ (pageStage.at = "done" /\ error # ProfileReadError) => fetches >= 1

\* The request of the initial load is in flight for a user with no document,
\* with every field at its default, and the page is not in the error state.
C7_Witness ==
    /\ userDocs["u1"] = NoDoc
    /\ error = NoError
    /\ Len(inflight) = 1
    /\ ~inflight[1].isRefresh
    /\ \A f \in C7_RequestFields : inflight[1].body.profile[f] = C7_Default(f)


\* ------------------------------------------- specification: the DAG builder

\* The client state while the engine handles a request.
ClientIdle ==
    /\ InputInit
    /\ SetupInit
    /\ AppSignedIn("u1", TRUE, TRUE, SampleQuery)
    /\ userDocs = [u \in Users |-> IF u = "u1" THEN ProfileDoc(FullProfile, TRUE) ELSE NoDoc]
    /\ AsyncIdle
    /\ profile = EmptyProfile
    /\ recommendations = NoRecommendations
    /\ loading = TRUE
    /\ error = NoError
    /\ isRefreshing = FALSE
    /\ pageStage = [at |-> "idle", uid |-> NoUser]
    /\ inflight = <<>>
    /\ engineOutput = EmptyOutput
    /\ shownFor = NoRequest
    /\ fetches = 0

\* The declared prerequisites of the candidates: at most MaxDeclared entries,
\* each naming a candidate (itself included) or an action that is absent.
DeclaredSets ==
    {[n \in Nodes |-> {d[2] : d \in {x \in D : x[1] = n}}] :
        D \in SubsetsUpTo(Nodes \X (Nodes \cup {AbsentAction}), MaxDeclared)}

InitDag ==
    /\ ClientIdle
    /\ DagIdle

\* The steps of the detect / remove-one-edge / retry loop.
LoopStep ==
    \/ buildEdges
    \/ breakCycle

NextDag ==
    \/ /\ dagPc = "idle"
       /\ \E declared_ \in DeclaredSets, score_ \in [Nodes -> Scores] :
             process(declared_, score_)
    \/ LoopStep
    \/ topologicalSort

\* The builder is a synchronous loop: a step of it that can be taken is taken.
SpecDag == InitDag /\ [][NextDag]_vars /\ WF_vars(LoopStep)

\* C10: every break strictly reduces the number of edges; the loop ends, in
\* a graph with no cycle; and the topological sort of the graph it ends with
\* holds every node once, each after its prerequisites.
C10_CycleResolutionTerminates ==
    /\ [][dagPc = "detect" /\ dagPc' = "detect"
            => Cardinality(edges') < Cardinality(edges)]_vars
    /\ (dagPc = "build") ~> (dagPc = "detect" /\ Cycles(edges) = {})
    /\ [](dagPc = "done" =>
            /\ Cycles(edges) = {}
            /\ Len(topoOrder) = NumNodes
            /\ {topoOrder[i] : i \in DOMAIN topoOrder} = Nodes
            /\ \A e \in edges :
                  \E i, j \in DOMAIN topoOrder :
                      i < j /\ topoOrder[i] = e[1] /\ topoOrder[j] = e[2])

\* The builder finished on candidates that declared a cycle A -> B -> A,
\* having removed exactly one of its two edges, and ordered every candidate.
C10_Witness ==
    /\ dagPc = "done"
    /\ \E c \in Cycles(BuildEdges(declared)) : Len(c) = 2
    /\ Cardinality(edges) + 1 = Cardinality(BuildEdges(declared))
    /\ Len(topoOrder) = NumNodes

\* ------------------------------------------------- claims: the DAG builder

\* C12: when the only cycle of the candidates is a -> b -> a, the builder ends
\* with every candidate ordered, having removed exactly one edge: an edge of the
\* cycle whose head node has the lowest total score; the other edge is kept.
C12_TwoCycleOneEdgeRemoved ==
    \A a, b \in Nodes :
        (/\ dagPc = "done"
         /\ a # b
         /\ Cycles(BuildEdges(declared)) = {<<a, b>>, <<b, a>>})
        => /\ Len(topoOrder) = NumNodes
           /\ \E e \in {<<a, b>>, <<b, a>>} :
                 /\ edges = BuildEdges(declared) \ {e}
                 /\ ({<<a, b>>, <<b, a>>} \ {e}) \subseteq edges
                 /\ score[e[2]] <= score[a]
                 /\ score[e[2]] <= score[b]

\* The only cycle was 1 -> 2 -> 1, node 1 has the lower score, and the edge
\* into node 1 was removed.
C12_Witness ==
    /\ dagPc = "done"
    /\ Cycles(BuildEdges(declared)) = {<<1, 2>>, <<2, 1>>}
    /\ score[1] < score[2]
    /\ edges = BuildEdges(declared) \ {<<2, 1>>}
    /\ <<1, 2>> \in edges

\* The orders of all candidates in which every position holds a node that the
\* tie-break rule allows there.
RuleOrders(E, score_) ==
    {p \in {c \in SimplePaths : Len(c) = NumNodes} :
        \A i \in 1..NumNodes :
            p[i] \in Best(Ready(E, {p[j] : j \in 1..(i - 1)}), score_)}

NextGroup ==
    \/ NextDag
    \/ /\ dagPc = "done"
       /\ \E horizon_ \in [Nodes -> {Horizons[i] : i \in DOMAIN Horizons}] : group(horizon_)

SpecGroup == InitDag /\ [][NextGroup]_vars

PathPosition(n) == CHOOSE i \in DOMAIN sequentialPath : sequentialPath[i] = n

IsTotalOrder(path) ==
    /\ Len(path) = NumNodes
    /\ {path[i] : i \in DOMAIN path} = Nodes

SampleEdits ==
    {ProfileWith({"age"}, FALSE), ProfileWith(ProfileFields \ {"location"}, FALSE),
     FullProfile}

\* App with the account page's Save button; on UserInputPage one text is
\* typed and the slider is moved to its end.
NextStore ==
    \/ canClickTimer
    \/ handleScreenClick
    \/ \E u \in Users, written \in BOOLEAN : signInWithGoogle(u, written)
    \/ authCallbackInvoke
    \/ \E i \in DOMAIN authCallbacks, readOk \in BOOLEAN : authCallbackResume(i, readOk)
    \/ handleLogout
    \/ handleLogoutResume
    \/ handleOpenAccountPage
    \/ handleCloseAccountPage
    \/ \E editedData \in SampleEdits : handleSave(editedData)
    \/ handleProfileComplete(FullProfile) /\ UNCHANGED onCompleteCall
    \/ handleProfileCompleteSaved
    \/ handleProfileCompleteFailed
    \/ setCurrentSituation(<<"a">>)
    \/ setFutureGoals(<<"a">>)
    \/ setRiskSliderValue(SliderMax)
    \/ handleSubmit

SpecStore == InitApp /\ [][NextStore]_vars

\* ------------------------------------------------------- claims: the App

\* C14: once no auth-state callback is pending, App's user is the user of
\* the most recent auth state change (auth.currentUser).
C14_UserIsLatestAuthUser ==
    authCallbacks = <<>> => user = authUser

\* C15: ProfileSetup is not rendered for a user whose completion check
\* succeeded and whose stored profileCompleted flag is true.
C15_NoProfileSetupForCompletedUser ==
    ~(/\ Screen = "profileSetup"
      /\ lastCheck.made /\ lastCheck.userId = user /\ lastCheck.readOk
      /\ userDocs[user].exists /\ userDocs[user].profileCompleted)

\* C16: a user whose sign-in completes with a completed profile is not taken
\* to the dashboard by that step: UserInputPage comes first.
C16_InputNotCarriedOver ==
    [][(user = NoUser /\ user' # NoUser /\ profileComplete')
          => (~userInputComplete' /\ queryData' = NoQuery)]_vars

\* C17: the step that ends a pending save either wrote the profile document
\* and set profileComplete, or wrote nothing and changed no App state, so the
\* screen stays the one it was.
C17_ProfileCompleteOnlyAfterSave ==
    [][(savePending # <<>> /\ savePending' = <<>>) =>
          LET userId == savePending[1].uid
              saved == saveUserProfile(userDocs[userId], savePending[1].profileData)
          IN  \/ /\ userDocs' = [userDocs EXCEPT ![userId] = saved]
                 /\ profileComplete'
                 /\ UNCHANGED <<user, appLoading, userInputComplete, queryData,
                                showAccountPage, showButtons, canClick>>
              \/ /\ UNCHANGED userDocs
                 /\ UNCHANGED appVars
                 /\ Screen' = Screen]_vars

\* The user was found without a completed profile at sign-in, and the save of
\* ProfileSetup has since written the profile and set profileComplete.
C17_Witness ==
    /\ Screen = "userInput"
    /\ savePending = <<>>
    /\ lastCheck.userId = user /\ lastCheck.readOk /\ ~lastCheck.result
    /\ userDocs[user] = ProfileDoc(FullProfile, TRUE)

\* ------------------------------------------------ claims: the user store

\* C18: a sign-in leaves an existing user document as it is (it creates one
\* without a profile when there is none), and a document whose
\* profileCompleted is true keeps it, so that a successful
\* checkProfileCompleted returns true for it.
C18_SignInKeepsProfile ==
    [][\A u \in Users :
          /\ (authUser # u /\ authUser' = u) =>
                \/ userDocs'[u] = userDocs[u]
                \/ ~userDocs[u].exists /\ userDocs'[u] = SignedInDoc
          /\ userDocs[u].profileCompleted =>
                /\ userDocs'[u].profileCompleted
                /\ checkProfileCompleted(userDocs'[u], TRUE)]_vars

\* A user with a saved profile has signed in again from the landing page.
C18_Witness ==
    /\ showButtons
    /\ authUser # NoUser
    /\ authCallbacks # <<>>
    /\ authCallbacks[Len(authCallbacks)].currentUser = authUser
    /\ userDocs[authUser] = ProfileDoc(FullProfile, TRUE)
    /\ lastCheck.userId = authUser

\* C19: the value checkProfileCompleted returned is true exactly when its read
\* succeeded, the document existed and its profileCompleted was true.
C19_CheckProfileCompleted ==
    lastCheck.made =>
        (lastCheck.result <=>
            (lastCheck.readOk /\ lastCheck.exists /\ lastCheck.profileCompleted))

\* The read of a completed user's document failed and the check returned false.
C19_Witness ==
    /\ lastCheck.made
    /\ ~lastCheck.readOk
    /\ userDocs[lastCheck.userId].profileCompleted
    /\ ~lastCheck.result
    /\ user = lastCheck.userId
    /\ ~profileComplete

\* C20: a user document with profileCompleted true has all seven profile
\* fields non-empty.
C20_CompletedProfileIsFull ==
    \A u \in Users :
        userDocs[u].profileCompleted =>
            \A f \in ProfileFields : userDocs[u].profile[f] # ""

\* ------------------------------------------------- claims: ProfileSetup

\* A signed-in user without a profile is shown ProfileSetup.
InitSetup ==
    /\ InputInit
    /\ SetupInit
    /\ AppSignedIn("u1", FALSE, FALSE, NoQuery)
    /\ userDocs = [u \in Users |-> IF u = "u1" THEN SignedInDoc ELSE NoDoc]
    /\ AsyncIdle
    /\ PageInit

NextSetup ==
    \/ \E i \in DOMAIN profileQuestions :
          \E value \in InputValues(profileQuestions[i]) :
             handleValueChange(profileQuestions[i], value)
    \/ handleCityInputChange
    \/ \E city \in CityNames : handleCitySelect(city)
    \/ \E direction \in {-1, 1} : handleWheel(direction)
    \/ \E index \in 0..(Len(profileQuestions) - 1), autoCity \in CityNames \cup {NoCity} :
          handleKeyDown(index, autoCity)
    \/ submitButtonClick
    \/ handleProfileCompleteSaved
    \/ handleProfileCompleteFailed

SpecSetup == InitSetup /\ [][NextSetup]_vars

\* C21: the profile data given to onComplete has a non-empty value for each
\* of the seven questions and was given while the last card was selected; and
\* while a field is empty no step invokes onComplete.
C21_OnCompleteOnlyWhenAllFilled ==
    /\ [](onCompleteCall.called =>
            /\ \A f \in ProfileFields : onCompleteCall.profileData[f] # ""
            /\ isLastCard(onCompleteCall.selectedIndex))
    /\ [][((\E f \in ProfileFields : setupProfileData[f] = "") \/ ~isLastCard(selectedIndex))
            => (onCompleteCall' = onCompleteCall /\ (savePending' = savePending \/ savePending' = <<>>))]_vars

\* onComplete was invoked from the last card with the seven answers, and the
\* save it started is pending.
C21_Witness ==
    /\ onCompleteCall.called
    /\ onCompleteCall.profileData = setupProfileData
    /\ savePending # <<>>
    /\ savePending[1].profileData = setupProfileData
    /\ Screen = "profileSetup"

\* ----------------------------------------- claims: fetchRecommendations

\* The roadmap page just mounted for a signed-in user who can log out while
\* the page loads or refreshes.
InitFetch == ClientIdle /\ DagIdle

NextFetch ==
    \/ initialLoad
    \/ initialLoadProfile
    \/ initialLoadFails
    \/ \E field \in ToggleFields : updateProfile(field, PickedOption(field))
    \/ \E i \in DOMAIN inflight, out \in SampleOutputs : FetchSuccess(i, out)
    \/ \E i \in DOMAIN inflight, message \in {EngineApiError, NetworkError} :
          FetchFails(i, message)
    \/ handleLogout
    \/ handleLogoutResume
    \/ authCallbackInvoke

SpecFetch == InitFetch /\ [][NextFetch]_vars

\* C23: a step in which a call of fetchRecommendations ends (its response is
\* handled, or it finds no authenticated user) leaves loading and
\* isRefreshing false; a call made without an authenticated user sends no
\* request and sets the error 'User not authenticated'; and once every call
\* has ended both flags are false.
C23_FetchEndsNotLoading ==
    /\ [][(Len(inflight') < Len(inflight) \/ (fetches' # fetches /\ inflight' = inflight))
            => (~loading' /\ ~isRefreshing')]_vars
    /\ [][(fetches' # fetches /\ authUser = NoUser)
            => (inflight' = inflight /\ error' = NotAuthenticated)]_vars
    /\ []((fetches > 0 /\ inflight = <<>>) => (~loading /\ ~isRefreshing))

\* After a response was displayed and the user logged out, a toggle started a
\* call that found no authenticated user: no request is awaited.
C23_Witness ==
    /\ recommendations.present
    /\ authUser = NoUser
    /\ error = NotAuthenticated
    /\ inflight = <<>>
    /\ fetches > 1
    /\ ~loading /\ ~isRefreshing

====
